---- MODULE Spec2Model ----
(***************************************************************************)
(* Model of Dragon/include/core/operator.h: OperatorBase, Operator<Context> *)
(* (construction, Run, MemorySwitch, the rank gate) and the TENSOR_FILL     *)
(* helper macro.                                                            *)
(***************************************************************************)
EXTENDS Integers, Sequences, FiniteSets, TLC

\* ---------------------------------------------------------------- bounds
MaxArity == 2       \* longest input / output list of a descriptor
MaxRank == 1        \* MPI ranks are 0..MaxRank
MaxRankArgs == 2    \* longest "mpi_rank" argument an operator is constructed with
RunRankArgs == 1    \* longest "mpi_rank" argument of an operator that is run
MaxDim == 3         \* largest extent of one dimension of a shape
MaxDims == 2        \* most dimensions of a shape

TensorNames == {"x", "ignore"}
Ranks == 0..MaxRank
Phases == {"TRAIN", "TEST"}
IdxRange == (0 - (MaxArity + 1))..(MaxArity + 1)

RECURSIVE SeqsUpTo(_, _)
SeqsUpTo(S, n) ==
    IF n = 0 THEN {<<>>}
    ELSE LET shorter == SeqsUpTo(S, n - 1)
         IN  shorter \cup {Append(s, e) : s \in {t \in shorter : Len(t) = n - 1}, e \in S}

VARIABLES
    inputs_,      \* OperatorBase::inputs_  : names of the resolved input tensors
    outputs_,     \* OperatorBase::outputs_ : names of the resolved output tensors
    debug_mode,   \* op_def_.debug_mode()
    with_mpi,     \* TRUE iff the build defines WITH_MPI
    mpi_rank,     \* the repeated argument "mpi_rank" of the descriptor
    cur_rank,     \* what MPI_Comm_rank reports for this process
    allow_run_,   \* Operator::allow_run_
    phase_,       \* OperatorBase::phase_
    pc,           \* position of the thread inside Run() ("idle" between calls)
    i,            \* loop index of MemorySwitch
    ctx_,         \* Operator::ctx_ : device context
    onDevice,     \* per workspace tensor: has its storage been moved to the device
    acc,          \* the tensor access made by the kernel during this Run()
    log,          \* calls made since the latest entry of Run(), in order
    tensor,       \* TENSOR_FILL: the tensor being filled
    fillers,      \* TENSOR_FILL: names with a filler registered in the workspace
    fillpc,       \* TENSOR_FILL: "ready", "done" or "fatal"
    call,         \* TENSOR_FILL: the latest call and what it did
    multiplier,   \* INIT_MULTIPLIER: the workspace tensor "_t_multiplier"
    ptr_tensor,   \* INIT_MULTIPLIER: the caller's pointer, by tensor name
    requested,    \* INIT_MULTIPLIER: the sizes requested so far
    mcall,        \* INIT_MULTIPLIER: the latest call and the tensor before it
    registry,     \* per registry: the registered (key, class) entries, in order
    regpc,        \* "static-init", "main" or "fatal"
    lastreg,      \* the latest registration and whether its key was taken
    created       \* CreateOperator: the latest descriptor and what it returned

opVars == <<inputs_, outputs_, debug_mode, with_mpi, mpi_rank, cur_rank,
            allow_run_, phase_, pc, i, ctx_, onDevice, acc, log>>
fillVars == <<tensor, fillers, fillpc, call>>
multVars == <<multiplier, ptr_tensor, requested, mcall>>
regVars == <<registry, regpc, lastreg, created>>
vars == <<inputs_, outputs_, debug_mode, with_mpi, mpi_rank, cur_rank,
          allow_run_, phase_, pc, i, ctx_, onDevice, acc, log,
          tensor, fillers, fillpc, call,
          multiplier, ptr_tensor, requested, mcall,
          registry, regpc, lastreg, created>>

\* ------------------------------------------------------------ OperatorBase
InputSize == Len(inputs_)
OutputSize == Len(outputs_)

\* CHECK_LT / CHECK_GE abort the process; otherwise the element at idx, or at
\* idx + size for a negative idx.  pos is the 1-based position in the vector.
At(vec, idx) ==
    IF ~(idx < Len(vec)) THEN [fatal |-> TRUE, pos |-> 0, name |-> ""]
    ELSE IF ~(idx >= 0 - Len(vec)) THEN [fatal |-> TRUE, pos |-> 0, name |-> ""]
    ELSE IF idx >= 0 THEN [fatal |-> FALSE, pos |-> idx + 1, name |-> vec[idx + 1]]
    ELSE [fatal |-> FALSE, pos |-> idx + Len(vec) + 1, name |-> vec[idx + Len(vec) + 1]]

\* variant: a negative idx counts from the front
input_FromFront(idx) ==
    IF ~(idx < Len(inputs_)) THEN [fatal |-> TRUE, pos |-> 0, name |-> ""]
    ELSE IF ~(idx >= 0 - Len(inputs_)) THEN [fatal |-> TRUE, pos |-> 0, name |-> ""]
    ELSE IF idx >= 0 THEN [fatal |-> FALSE, pos |-> idx + 1, name |-> inputs_[idx + 1]]
    ELSE [fatal |-> FALSE, pos |-> 0 - idx, name |-> inputs_[0 - idx]]

input(idx) == At(inputs_, idx)

output(idx) == At(outputs_, idx)

\* ------------------------------------------------------- Operator<Context>
RECURSIVE RankListed(_, _, _)
RankListed(allow_ranks, k, rank) ==
    IF k > Len(allow_ranks) THEN FALSE
    ELSE IF rank = allow_ranks[k] THEN TRUE
    ELSE RankListed(allow_ranks, k + 1, rank)

\* variant: the loop returns after comparing the first listed rank
_MPICheck_FirstOnly ==
    IF ~with_mpi THEN TRUE
    ELSE IF mpi_rank = <<>> THEN TRUE
    ELSE cur_rank = mpi_rank[1]

\* _MPICheck(), lines 117-129
_MPICheck ==
    IF ~with_mpi THEN TRUE
    ELSE IF mpi_rank = <<>> THEN TRUE
    ELSE RankListed(mpi_rank, 1, cur_rank)

\* variant: the "ignore" test looks at output(0) of any non-empty output list
Constructor_AnyIgnore ==
    LET gate == TRUE /\ _MPICheck
    IN  IF OutputSize >= 1
        THEN LET o == output(0)
             IN  IF o.fatal THEN [fatal |-> TRUE, allow_run |-> FALSE]
                 ELSE [fatal |-> FALSE, allow_run |-> gate /\ ~(o.name = "ignore")]
        ELSE [fatal |-> FALSE, allow_run |-> gate /\ ~FALSE]

\* variant: output(0) is evaluated whatever OutputSize() is
Constructor_NoGuard ==
    LET gate == TRUE /\ _MPICheck
        o == output(0)
    IN  IF o.fatal THEN [fatal |-> TRUE, allow_run |-> FALSE]
        ELSE [fatal |-> FALSE,
              allow_run |-> gate /\ ~(OutputSize = 1 /\ o.name = "ignore")]

\* The constructor body: allow_run_ = true; &= _MPICheck();
\* &= !(OutputSize() == 1 && output(0)->name() == "ignore").
\* && evaluates output(0) only when OutputSize() == 1.
Constructor ==
    LET gate == TRUE /\ _MPICheck
    IN  IF OutputSize = 1
        THEN LET o == output(0)
             IN  IF o.fatal THEN [fatal |-> TRUE, allow_run |-> FALSE]
                 ELSE [fatal |-> FALSE, allow_run |-> gate /\ ~(o.name = "ignore")]
        ELSE [fatal |-> FALSE, allow_run |-> gate /\ ~FALSE]

Ev(op, kind, idx, name) == [op |-> op, kind |-> kind, idx |-> idx, name |-> name]
Call(op) == Ev(op, "-", 0, "")
NoAcc == [kind |-> "none", idx |-> 0, fatal |-> FALSE, pos |-> 0, name |-> ""]
NoTensor == [name |-> "", shape |-> <<>>, count |-> 0, data |-> <<>>]
NoCall == [shape |-> <<>>, before |-> NoTensor, filled |-> FALSE]
Registries == {"CPUOperatorRegistry", "CUDAOperatorRegistry", "CUDNNOperatorRegistry"}
NoClass == [template |-> "", name |-> "", context |-> ""]
NoOp == [op_def_ |-> [device |-> "", type |-> "", name |-> ""], class |-> NoClass]
NoCreated == [desc |-> [device |-> "", type |-> "", name |-> ""], fatal |-> FALSE, op |-> NoOp]
NoReg == [macro |-> "", registry |-> "", key |-> "", dup |-> FALSE]

\* Context::SwitchToDevice / Context::FinishDeviceCompution
CtxSwitchToDevice(c) == [c EXCEPT !.active = TRUE]
CtxFinishDeviceCompution(c) == [c EXCEPT !.pending = FALSE]
\* Tensor::SwitchToDevice
TensorSwitchToDevice(dev, name) == [dev EXCEPT ![name] = TRUE]

\* a descriptor, the build and the MPI world an operator is constructed in
Descriptor(rankArgs) ==
    /\ inputs_ \in SeqsUpTo(TensorNames, MaxArity)
    /\ outputs_ \in SeqsUpTo(TensorNames, MaxArity)
    /\ debug_mode \in BOOLEAN
    /\ with_mpi \in BOOLEAN
    /\ mpi_rank \in SeqsUpTo(Ranks, rankArgs)
    /\ cur_rank \in (IF with_mpi THEN Ranks ELSE {0})   \* no MPI world without WITH_MPI

\* what the rest of a new operator and its workspace look like
NotRunYet ==
    /\ phase_ = "TEST"
    /\ i = 0
    /\ ctx_ = [active |-> FALSE, pending |-> FALSE]
    /\ onDevice = [n \in TensorNames |-> FALSE]
    /\ acc = NoAcc
    /\ log = <<>>

\* the state after construction
OpInit ==
    /\ Descriptor(RunRankArgs)
    /\ allow_run_ = Constructor.allow_run
    /\ pc = IF Constructor.fatal THEN "fatal" ELSE "idle"
    /\ NotRunYet

FillIdle ==
    /\ tensor = NoTensor
    /\ fillers = {}
    /\ fillpc = "ready"
    /\ call = NoCall

\* no multiplier requested yet: the workspace has no "_t_multiplier"
MultIdle ==
    /\ multiplier = NoTensor
    /\ ptr_tensor = ""
    /\ requested = {}
    /\ mcall = [size |-> 0, before |-> NoTensor, grew |-> FALSE]

\* static initialization has not registered anything yet
RegIdle ==
    /\ registry = [r \in Registries |-> <<>>]
    /\ regpc = "static-init"
    /\ lastreg = NoReg
    /\ created = NoCreated

Init == OpInit /\ FillIdle /\ MultIdle /\ RegIdle

\* variant: switching the phase re-enables the operator
SwitchToPhase_ResetsGate ==
    /\ pc = "idle"
    /\ \E p \in Phases : phase_' = p
    /\ allow_run_' = TRUE
    /\ UNCHANGED <<inputs_, outputs_, debug_mode, with_mpi, mpi_rank, cur_rank,
                   pc, i, ctx_, onDevice, acc, log>>
    /\ UNCHANGED fillVars
    /\ UNCHANGED <<multVars, regVars>>

\* line 46: void SwitchToPhase(const string& phase) { phase_ = phase; }
SwitchToPhase ==
    /\ pc = "idle"
    /\ \E p \in Phases : phase_' = p
    /\ UNCHANGED <<inputs_, outputs_, debug_mode, with_mpi, mpi_rank, cur_rank,
                   allow_run_, pc, i, ctx_, onDevice, acc, log>>
    /\ UNCHANGED fillVars
    /\ UNCHANGED <<multVars, regVars>>

\* variant: the allow_run_ test of line 86 is missing
RunEnter_NoGate ==
    /\ pc = "idle"
    /\ log' = <<Call("Run")>>
    /\ acc' = NoAcc
    /\ pc' = "SwitchToDevice"
    /\ UNCHANGED <<inputs_, outputs_, debug_mode, with_mpi, mpi_rank, cur_rank,
                   allow_run_, phase_, i, ctx_, onDevice>>
    /\ UNCHANGED fillVars
    /\ UNCHANGED <<multVars, regVars>>

\* Run(), line 86: if (!allow_run_) return;
RunEnter ==
    /\ pc = "idle"
    /\ log' = <<Call("Run")>>
    /\ acc' = NoAcc
    /\ pc' = IF ~allow_run_ THEN "idle" ELSE "SwitchToDevice"
    /\ UNCHANGED <<inputs_, outputs_, debug_mode, with_mpi, mpi_rank, cur_rank,
                   allow_run_, phase_, i, ctx_, onDevice>>
    /\ UNCHANGED fillVars
    /\ UNCHANGED <<multVars, regVars>>

\* variant: ShareBeforeRun is called whatever debug_mode is
RunSwitchToDevice_AlwaysShare ==
    /\ pc = "SwitchToDevice"
    /\ ctx_' = CtxSwitchToDevice(ctx_)
    /\ log' = Append(log, Call("ctx.SwitchToDevice"))
    /\ pc' = "ShareBeforeRun"
    /\ i' = i
    /\ UNCHANGED <<inputs_, outputs_, debug_mode, with_mpi, mpi_rank, cur_rank,
                   allow_run_, phase_, onDevice, acc>>
    /\ UNCHANGED fillVars
    /\ UNCHANGED <<multVars, regVars>>

\* line 87: ctx_.SwitchToDevice();
RunSwitchToDevice ==
    /\ pc = "SwitchToDevice"
    /\ ctx_' = CtxSwitchToDevice(ctx_)
    /\ log' = Append(log, Call("ctx.SwitchToDevice"))
    /\ pc' = IF ~debug_mode THEN "ShareBeforeRun" ELSE "MemorySwitch"
    /\ i' = i
    /\ UNCHANGED <<inputs_, outputs_, debug_mode, with_mpi, mpi_rank, cur_rank,
                   allow_run_, phase_, onDevice, acc>>
    /\ UNCHANGED fillVars
    /\ UNCHANGED <<multVars, regVars>>

\* line 88 and line 104: the default ShareBeforeRun has an empty body
ShareBeforeRun ==
    /\ pc = "ShareBeforeRun"
    /\ log' = Append(log, Call("ShareBeforeRun"))
    /\ pc' = "MemorySwitch"
    /\ i' = i
    /\ UNCHANGED <<inputs_, outputs_, debug_mode, with_mpi, mpi_rank, cur_rank,
                   allow_run_, phase_, ctx_, onDevice, acc>>
    /\ UNCHANGED fillVars
    /\ UNCHANGED <<multVars, regVars>>

\* line 89: MemorySwitch() is entered; int i = 0 of its first loop
MemorySwitch ==
    /\ pc = "MemorySwitch"
    /\ log' = Append(log, Call("MemorySwitch"))
    /\ i' = 0
    /\ pc' = "MemorySwitchInputs"
    /\ UNCHANGED <<inputs_, outputs_, debug_mode, with_mpi, mpi_rank, cur_rank,
                   allow_run_, phase_, ctx_, onDevice, acc>>
    /\ UNCHANGED fillVars
    /\ UNCHANGED <<multVars, regVars>>

\* variant: the first loop does not test the name
MemorySwitchInputs_NoSkip ==
    /\ pc = "MemorySwitchInputs"
    /\ IF i < InputSize
       THEN /\ IF TRUE
               THEN /\ onDevice' = TensorSwitchToDevice(onDevice, input(i).name)
                    /\ log' = Append(log, Ev("SwitchToDevice", "in", i, input(i).name))
               ELSE UNCHANGED <<onDevice, log>>
            /\ i' = i + 1
            /\ pc' = pc
       ELSE /\ i' = 0
            /\ pc' = "MemorySwitchOutputs"
            /\ UNCHANGED <<onDevice, log>>
    /\ UNCHANGED <<inputs_, outputs_, debug_mode, with_mpi, mpi_rank, cur_rank,
                   allow_run_, phase_, ctx_, acc>>
    /\ UNCHANGED fillVars
    /\ UNCHANGED <<multVars, regVars>>

\* MemorySwitch, first loop: one iteration, or the loop's exit
MemorySwitchInputs ==
    /\ pc = "MemorySwitchInputs"
    /\ IF i < InputSize
       THEN /\ IF input(i).name # "ignore"
               THEN /\ onDevice' = TensorSwitchToDevice(onDevice, input(i).name)
                    /\ log' = Append(log, Ev("SwitchToDevice", "in", i, input(i).name))
               ELSE UNCHANGED <<onDevice, log>>
            /\ i' = i + 1
            /\ pc' = pc
       ELSE /\ i' = 0
            /\ pc' = "MemorySwitchOutputs"
            /\ UNCHANGED <<onDevice, log>>
    /\ UNCHANGED <<inputs_, outputs_, debug_mode, with_mpi, mpi_rank, cur_rank,
                   allow_run_, phase_, ctx_, acc>>
    /\ UNCHANGED fillVars
    /\ UNCHANGED <<multVars, regVars>>

\* variant: the second loop stops one output early
MemorySwitchOutputs_Short ==
    /\ pc = "MemorySwitchOutputs"
    /\ IF i < OutputSize - 1
       THEN /\ IF output(i).name # "ignore"
               THEN /\ onDevice' = TensorSwitchToDevice(onDevice, output(i).name)
                    /\ log' = Append(log, Ev("SwitchToDevice", "out", i, output(i).name))
               ELSE UNCHANGED <<onDevice, log>>
            /\ i' = i + 1
            /\ pc' = pc
       ELSE /\ i' = 0
            /\ pc' = "RunOnDevice"
            /\ UNCHANGED <<onDevice, log>>
    /\ UNCHANGED <<inputs_, outputs_, debug_mode, with_mpi, mpi_rank, cur_rank,
                   allow_run_, phase_, ctx_, acc>>
    /\ UNCHANGED fillVars
    /\ UNCHANGED <<multVars, regVars>>

\* MemorySwitch, second loop
MemorySwitchOutputs ==
    /\ pc = "MemorySwitchOutputs"
    /\ IF i < OutputSize
       THEN /\ IF output(i).name # "ignore"
               THEN /\ onDevice' = TensorSwitchToDevice(onDevice, output(i).name)
                    /\ log' = Append(log, Ev("SwitchToDevice", "out", i, output(i).name))
               ELSE UNCHANGED <<onDevice, log>>
            /\ i' = i + 1
            /\ pc' = pc
       ELSE /\ i' = 0
            /\ pc' = "RunOnDevice"
            /\ UNCHANGED <<onDevice, log>>
    /\ UNCHANGED <<inputs_, outputs_, debug_mode, with_mpi, mpi_rank, cur_rank,
                   allow_run_, phase_, ctx_, acc>>
    /\ UNCHANGED fillVars
    /\ UNCHANGED <<multVars, regVars>>

\* line 90: RunOnDevice() is pure virtual.  The kernel of a subclass reads its
\* tensors through input(idx) / output(idx); a failed CHECK in the accessor
\* aborts the process inside RunOnDevice.
KernelAccess(kind, idx) ==
    IF kind = "none" THEN NoAcc
    ELSE LET r == IF kind = "in" THEN input(idx) ELSE output(idx)
         IN  [kind |-> kind, idx |-> idx, fatal |-> r.fatal, pos |-> r.pos, name |-> r.name]

RunOnDevice ==
    /\ pc = "RunOnDevice"
    /\ \E kind \in {"none", "in", "out"} : \E idx \in IdxRange :
          /\ kind = "none" => idx = 0
          /\ acc' = KernelAccess(kind, idx)
    /\ log' = Append(log, Call("RunOnDevice"))
    /\ ctx_' = [ctx_ EXCEPT !.pending = TRUE]
    /\ pc' = IF acc'.fatal THEN "fatal"
             ELSE IF ~debug_mode THEN "ClearAfterRun" ELSE "FinishDeviceCompution"
    /\ UNCHANGED <<inputs_, outputs_, debug_mode, with_mpi, mpi_rank, cur_rank,
                   allow_run_, phase_, i, onDevice>>
    /\ UNCHANGED fillVars
    /\ UNCHANGED <<multVars, regVars>>

\* line 91 and line 106: the default ClearAfterRun has an empty body
ClearAfterRun ==
    /\ pc = "ClearAfterRun"
    /\ log' = Append(log, Call("ClearAfterRun"))
    /\ pc' = "FinishDeviceCompution"
    /\ UNCHANGED <<inputs_, outputs_, debug_mode, with_mpi, mpi_rank, cur_rank,
                   allow_run_, phase_, i, ctx_, onDevice, acc>>
    /\ UNCHANGED fillVars
    /\ UNCHANGED <<multVars, regVars>>

\* variant: Run() returns without the synchronization
RunFinish_Skip ==
    /\ pc = "FinishDeviceCompution"
    /\ ctx_' = ctx_
    /\ log' = log
    /\ pc' = "idle"
    /\ UNCHANGED <<inputs_, outputs_, debug_mode, with_mpi, mpi_rank, cur_rank,
                   allow_run_, phase_, i, onDevice, acc>>
    /\ UNCHANGED fillVars
    /\ UNCHANGED <<multVars, regVars>>

\* line 92: ctx_.FinishDeviceCompution(); then Run() returns
RunFinish ==
    /\ pc = "FinishDeviceCompution"
    /\ ctx_' = CtxFinishDeviceCompution(ctx_)
    /\ log' = Append(log, Call("FinishDeviceCompution"))
    /\ pc' = "idle"
    /\ UNCHANGED <<inputs_, outputs_, debug_mode, with_mpi, mpi_rank, cur_rank,
                   allow_run_, phase_, i, onDevice, acc>>
    /\ UNCHANGED fillVars
    /\ UNCHANGED <<multVars, regVars>>

Next ==
    \/ SwitchToPhase
    \/ RunEnter
    \/ RunSwitchToDevice
    \/ ShareBeforeRun
    \/ MemorySwitch
    \/ MemorySwitchInputs
    \/ MemorySwitchOutputs
    \/ RunOnDevice
    \/ ClearAfterRun
    \/ RunFinish

Spec == Init /\ [][Next]_vars

\* --------------------------------------------------- construction by itself
\* Before the constructor body runs allow_run_ is uninitialized storage.
GateInit ==
    /\ Descriptor(MaxRankArgs)
    /\ allow_run_ \in BOOLEAN
    /\ pc = "new"
    /\ NotRunYet

\* Operator::Operator, lines 78-83
Construct ==
    /\ pc = "new"
    /\ allow_run_' = Constructor.allow_run
    /\ pc' = IF Constructor.fatal THEN "fatal" ELSE "idle"
    /\ UNCHANGED <<inputs_, outputs_, debug_mode, with_mpi, mpi_rank, cur_rank,
                   phase_, i, ctx_, onDevice, acc, log>>
    /\ UNCHANGED fillVars
    /\ UNCHANGED <<multVars, regVars>>

InitGate == GateInit /\ FillIdle /\ MultIdle /\ RegIdle

NextGate == Construct

SpecGate == InitGate /\ [][NextGate]_vars

\* ------------------------------------------------------------ TENSOR_FILL
FillNames == {"w", "v"}     \* names a filler can be registered under
FilledNames == {"w"}        \* name of the tensor the macro is applied to
FillerValues == {5, 6}      \* what a registered (constant) filler writes
FedValues == {7}            \* contents of a tensor that was fed before the fill
Garbage == 0 - 1            \* contents of freshly reshaped, unwritten storage
Shapes == SeqsUpTo(0..MaxDim, MaxDims)

\* line 153-154: TIndex count = 1; for (...) count *= shape[i];
RECURSIVE ShapeCount(_, _, _)
ShapeCount(shape, k, count) ==
    IF k > Len(shape) THEN count
    ELSE ShapeCount(shape, k + 1, count * shape[k])

\* Tensor::Reshape: the dimensions are replaced and count becomes their
\* product; storage is kept when the count does not change.
TensorReshape(t, shape) ==
    LET n == ShapeCount(shape, 1, 1)
    IN  [t EXCEPT !.shape = shape,
                  !.count = n,
                  !.data = IF n = t.count THEN t.data ELSE [k \in 1..n |-> Garbage]]

\* Filler::Fill of the filler created from the registered descriptor
FillerFill(t, value) == [t EXCEPT !.data = [k \in 1..t.count |-> value]]

\* Workspace::GetFiller: the registered descriptor, or null
HasFiller(name) == name \in DOMAIN fillers

FillInit ==
    /\ \E name \in FilledNames :
          \/ tensor = [NoTensor EXCEPT !.name = name]
          \/ \E shape \in Shapes : \E fed \in FedValues :
                LET n == ShapeCount(shape, 1, 1)
                IN  tensor = [name |-> name, shape |-> shape, count |-> n,
                              data |-> [k \in 1..n |-> fed]]
    /\ \E registered \in SUBSET FillNames : fillers \in [registered -> FillerValues]
    /\ fillpc = "ready"
    /\ call = NoCall

OpFixed ==
    /\ inputs_ = <<>>
    /\ outputs_ = <<>>
    /\ debug_mode = FALSE
    /\ with_mpi = FALSE
    /\ mpi_rank = <<>>
    /\ cur_rank = 0
    /\ allow_run_ = Constructor.allow_run
    /\ pc = "idle"
    /\ phase_ = "TEST"
    /\ i = 0
    /\ ctx_ = [active |-> FALSE, pending |-> FALSE]
    /\ onDevice = [n \in TensorNames |-> FALSE]
    /\ acc = NoAcc
    /\ log = <<>>

\* variant: the filler runs before the tensor is reshaped
TENSOR_FILL_FillFirst(shape) ==
    /\ fillpc # "fatal"
    /\ IF tensor.count = 0
       THEN IF ~HasFiller(tensor.name)
            THEN /\ fillpc' = "fatal"
                 /\ tensor' = tensor
                 /\ call' = [shape |-> shape, before |-> tensor, filled |-> FALSE]
            ELSE /\ tensor' = TensorReshape(FillerFill(tensor, fillers[tensor.name]), shape)
                 /\ fillpc' = "done"
                 /\ call' = [shape |-> shape, before |-> tensor, filled |-> TRUE]
       ELSE IF ShapeCount(shape, 1, 1) # tensor.count
            THEN /\ fillpc' = "fatal"
                 /\ tensor' = tensor
                 /\ call' = [shape |-> shape, before |-> tensor, filled |-> FALSE]
            ELSE /\ tensor' = TensorReshape(tensor, shape)
                 /\ fillpc' = "done"
                 /\ call' = [shape |-> shape, before |-> tensor, filled |-> FALSE]
    /\ UNCHANGED fillers
    /\ UNCHANGED opVars
    /\ UNCHANGED <<multVars, regVars>>

\* variant: the CHECK_EQ of the requested and the current count is missing
TENSOR_FILL_NoCheck(shape) ==
    /\ fillpc # "fatal"
    /\ IF tensor.count = 0
       THEN IF ~HasFiller(tensor.name)
            THEN /\ fillpc' = "fatal"
                 /\ tensor' = tensor
                 /\ call' = [shape |-> shape, before |-> tensor, filled |-> FALSE]
            ELSE /\ tensor' = FillerFill(TensorReshape(tensor, shape), fillers[tensor.name])
                 /\ fillpc' = "done"
                 /\ call' = [shape |-> shape, before |-> tensor, filled |-> TRUE]
       ELSE /\ tensor' = TensorReshape(tensor, shape)
            /\ fillpc' = "done"
            /\ call' = [shape |-> shape, before |-> tensor, filled |-> FALSE]
    /\ UNCHANGED fillers
    /\ UNCHANGED opVars
    /\ UNCHANGED <<multVars, regVars>>

\* variant: Reshape is called before the CHECK of either branch
TENSOR_FILL_ReshapeFirst(shape) ==
    /\ fillpc # "fatal"
    /\ IF tensor.count = 0
       THEN IF ~HasFiller(tensor.name)
            THEN /\ fillpc' = "fatal"
                 /\ tensor' = TensorReshape(tensor, shape)
                 /\ call' = [shape |-> shape, before |-> tensor, filled |-> FALSE]
            ELSE /\ tensor' = FillerFill(TensorReshape(tensor, shape), fillers[tensor.name])
                 /\ fillpc' = "done"
                 /\ call' = [shape |-> shape, before |-> tensor, filled |-> TRUE]
       ELSE IF ShapeCount(shape, 1, 1) # tensor.count
            THEN /\ fillpc' = "fatal"
                 /\ tensor' = TensorReshape(tensor, shape)
                 /\ call' = [shape |-> shape, before |-> tensor, filled |-> FALSE]
            ELSE /\ tensor' = TensorReshape(tensor, shape)
                 /\ fillpc' = "done"
                 /\ call' = [shape |-> shape, before |-> tensor, filled |-> FALSE]
    /\ UNCHANGED fillers
    /\ UNCHANGED opVars
    /\ UNCHANGED <<multVars, regVars>>

\* variant: a registered filler also runs on a non-empty tensor
TENSOR_FILL_Refill(shape) ==
    /\ fillpc # "fatal"
    /\ IF tensor.count = 0
       THEN IF ~HasFiller(tensor.name)
            THEN /\ fillpc' = "fatal"
                 /\ tensor' = tensor
                 /\ call' = [shape |-> shape, before |-> tensor, filled |-> FALSE]
            ELSE /\ tensor' = FillerFill(TensorReshape(tensor, shape), fillers[tensor.name])
                 /\ fillpc' = "done"
                 /\ call' = [shape |-> shape, before |-> tensor, filled |-> TRUE]
       ELSE IF ShapeCount(shape, 1, 1) # tensor.count
            THEN /\ fillpc' = "fatal"
                 /\ tensor' = tensor
                 /\ call' = [shape |-> shape, before |-> tensor, filled |-> FALSE]
            ELSE IF HasFiller(tensor.name)
                 THEN /\ tensor' = FillerFill(TensorReshape(tensor, shape), fillers[tensor.name])
                      /\ fillpc' = "done"
                      /\ call' = [shape |-> shape, before |-> tensor, filled |-> TRUE]
                 ELSE /\ tensor' = TensorReshape(tensor, shape)
                      /\ fillpc' = "done"
                      /\ call' = [shape |-> shape, before |-> tensor, filled |-> FALSE]
    /\ UNCHANGED fillers
    /\ UNCHANGED opVars
    /\ UNCHANGED <<multVars, regVars>>

\* The macro, expanded on `tensor` with the requested shape
TENSOR_FILL(shape) ==
    /\ fillpc # "fatal"
    /\ IF tensor.count = 0
       THEN IF ~HasFiller(tensor.name)
            THEN /\ fillpc' = "fatal"
                 /\ tensor' = tensor
                 /\ call' = [shape |-> shape, before |-> tensor, filled |-> FALSE]
            ELSE /\ tensor' = FillerFill(TensorReshape(tensor, shape), fillers[tensor.name])
                 /\ fillpc' = "done"
                 /\ call' = [shape |-> shape, before |-> tensor, filled |-> TRUE]
       ELSE IF ShapeCount(shape, 1, 1) # tensor.count
            THEN /\ fillpc' = "fatal"
                 /\ tensor' = tensor
                 /\ call' = [shape |-> shape, before |-> tensor, filled |-> FALSE]
            ELSE /\ tensor' = TensorReshape(tensor, shape)
                 /\ fillpc' = "done"
                 /\ call' = [shape |-> shape, before |-> tensor, filled |-> FALSE]
    /\ UNCHANGED fillers
    /\ UNCHANGED opVars
    /\ UNCHANGED <<multVars, regVars>>

TensorFill == \E shape \in Shapes : TENSOR_FILL(shape)

InitFill == OpFixed /\ FillInit /\ MultIdle /\ RegIdle

NextFill == TensorFill

SpecFill == InitFill /\ [][NextFill]_vars

\* -------------------------------------------------------- INIT_MULTIPLIER
MaxSize == 4                \* largest size a kernel requests
Sizes == (0 - 1)..MaxSize
One == 1                    \* dragon_cast<T, float>(1.0f)

\* Workspace::CreateTensor: the tensor of that name, created empty if absent
CreateTensor(t, name) == IF t.name = name THEN t ELSE [NoTensor EXCEPT !.name = name]

\* math::Set<T, Context>(n, value, data): the first n elements become value
MathSet(t, n, value) ==
    [t EXCEPT !.data = [k \in 1..Len(t.data) |-> IF k <= n THEN value ELSE t.data[k]]]

\* variant: the tensor is resized whenever the size differs from its count
INIT_MULTIPLIER_Resize(size) ==
    /\ LET t == CreateTensor(multiplier, "_t_multiplier")
       IN  /\ ptr_tensor' = t.name
           /\ multiplier' = IF size # t.count
                            THEN MathSet(TensorReshape(t, <<size>>), size, One)
                            ELSE t
           /\ mcall' = [size |-> size, before |-> multiplier, grew |-> size # t.count]
    /\ requested' = requested \cup {size}
    /\ UNCHANGED <<regVars, fillVars>>
    /\ UNCHANGED opVars

\* variant: only the elements beyond the old count are written
INIT_MULTIPLIER_SetNew(size) ==
    /\ LET t == CreateTensor(multiplier, "_t_multiplier")
       IN  /\ ptr_tensor' = t.name
           /\ multiplier' = IF size > t.count
                            THEN MathSet(TensorReshape(t, <<size>>), size - t.count, One)
                            ELSE t
           /\ mcall' = [size |-> size, before |-> multiplier, grew |-> size > t.count]
    /\ requested' = requested \cup {size}
    /\ UNCHANGED <<regVars, fillVars>>
    /\ UNCHANGED opVars

\* The macro, lines 163-170
INIT_MULTIPLIER(size) ==
    /\ LET t == CreateTensor(multiplier, "_t_multiplier")
       IN  /\ ptr_tensor' = t.name
           /\ multiplier' = IF size > t.count
                            THEN MathSet(TensorReshape(t, <<size>>), size, One)
                            ELSE t
           /\ mcall' = [size |-> size, before |-> multiplier, grew |-> size > t.count]
    /\ requested' = requested \cup {size}
    /\ UNCHANGED <<regVars, fillVars>>
    /\ UNCHANGED opVars

InitMultiplier == \E size \in Sizes : INIT_MULTIPLIER(size)

InitMult == OpFixed /\ FillIdle /\ MultIdle /\ RegIdle

NextMult == InitMultiplier

SpecMult == InitMult /\ [][NextMult]_vars

\* ------------------------------------------- registries and CreateOperator
OpTypes == {"Add", "Conv"}
DescTypes == OpTypes \cup {"NoSuchOp"}
DescNames == {"op1", "op2"}
Devices == {"CPU", "CUDA", "CUDNN"}
Descriptors == [device : Devices, type : DescTypes, name : DescNames]

\* name##Op<context> and CuDNN##name##Op<context>
Class(template, name, context) == [template |-> template, name |-> name, context |-> context]

HasKey(entries, key) == \E k \in 1..Len(entries) : entries[k].key = key
Lookup(entries, key) == entries[CHOOSE k \in 1..Len(entries) : entries[k].key = key]

\* REGISTER_CLASS(registry, key, class), run at static initialization by the
\* deploy macro `macro`: a key that is already present is fatal
REGISTER_CLASS(macro, reg, key, class) ==
    /\ regpc = "static-init"
    /\ IF HasKey(registry[reg], key)
       THEN /\ regpc' = "fatal"
            /\ registry' = registry
       ELSE /\ regpc' = regpc
            /\ registry' = [registry EXCEPT ![reg] =
                               Append(@, [key |-> key, class |-> class, by |-> macro])]
    /\ lastreg' = [macro |-> macro, registry |-> reg, key |-> key,
                   dup |-> HasKey(registry[reg], key)]
    /\ UNCHANGED created
    /\ UNCHANGED <<multVars, fillVars>>
    /\ UNCHANGED opVars

\* lines 178-185
REGISTER_CPU_OPERATOR(macro, name, class) ==
    REGISTER_CLASS(macro, "CPUOperatorRegistry", name, class)

REGISTER_CUDA_OPERATOR(macro, name, class) ==
    REGISTER_CLASS(macro, "CUDAOperatorRegistry", name, class)

REGISTER_CUDNN_OPERATOR(macro, name, class) ==
    REGISTER_CLASS(macro, "CUDNNOperatorRegistry", name, class)

\* lines 187-201
DEPLOY_CPU(name) ==
    REGISTER_CPU_OPERATOR("DEPLOY_CPU", name, Class("", name, "CPUContext"))

\* variant: the CUDA bundle registers the CPU specialization
DEPLOY_CUDA_CPUContext(name) ==
    REGISTER_CUDA_OPERATOR("DEPLOY_CUDA", name, Class("", name, "CPUContext"))

DEPLOY_CUDA(name) ==
    REGISTER_CUDA_OPERATOR("DEPLOY_CUDA", name, Class("", name, "CUDAContext"))

\* variant: the CPU-for-CUDA bundle inserts into the CPU registry
DEPLOY_CPU_CUDA_IntoCPU(name) ==
    REGISTER_CPU_OPERATOR("DEPLOY_CPU_CUDA", name, Class("", name, "CPUContext"))

DEPLOY_CPU_CUDA(name) ==
    REGISTER_CUDA_OPERATOR("DEPLOY_CPU_CUDA", name, Class("", name, "CPUContext"))

DEPLOY_CUDNN(name) ==
    REGISTER_CUDNN_OPERATOR("DEPLOY_CUDNN", name, Class("CuDNN", name, "CUDAContext"))

DeployCPU == \E name \in OpTypes : DEPLOY_CPU(name)
DeployCUDA == \E name \in OpTypes : DEPLOY_CUDA(name)
DeployCPUCUDA == \E name \in OpTypes : DEPLOY_CPU_CUDA(name)
DeployCUDNN == \E name \in OpTypes : DEPLOY_CUDNN(name)

\* static initialization is over; main() starts
EnterMain ==
    /\ regpc = "static-init"
    /\ regpc' = "main"
    /\ UNCHANGED <<registry, lastreg, created>>
    /\ UNCHANGED <<multVars, fillVars>>
    /\ UNCHANGED opVars

\* the registry a descriptor's device_option selects
RegistryOf(device) ==
    IF device = "CPU" THEN "CPUOperatorRegistry"
    ELSE IF device = "CUDA" THEN "CUDAOperatorRegistry"
    ELSE "CUDNNOperatorRegistry"

\* variant: type() returns the descriptor's name
type_ReturnsName(op) == op.op_def_.name

\* lines 50-51: name() and type() read the descriptor the operator stores
type(op) == op.op_def_.type

name(op) == op.op_def_.name

\* CreateOperator(op_def, ws): the factory registered under op_def.type() in
\* the selected registry constructs the operator; an unknown key is fatal
CreateOperator(op_def) ==
    /\ regpc = "main"
    /\ LET entries == registry[RegistryOf(op_def.device)]
       IN  IF HasKey(entries, op_def.type)
           THEN /\ created' = [desc |-> op_def, fatal |-> FALSE,
                               op |-> [op_def_ |-> op_def,
                                       class |-> Lookup(entries, op_def.type).class]]
                /\ regpc' = regpc
           ELSE /\ created' = [desc |-> op_def, fatal |-> TRUE, op |-> NoOp]
                /\ regpc' = "fatal"
    /\ UNCHANGED <<registry, lastreg>>
    /\ UNCHANGED <<multVars, fillVars>>
    /\ UNCHANGED opVars

Dispatch == \E op_def \in Descriptors : CreateOperator(op_def)

InitReg == OpFixed /\ FillIdle /\ MultIdle /\ RegIdle

NextReg ==
    \/ DeployCPU
    \/ DeployCUDA
    \/ DeployCPUCUDA
    \/ DeployCUDNN
    \/ EnterMain
    \/ Dispatch

SpecReg == InitReg /\ [][NextReg]_vars

\* ------------------------------------------------------------- properties
Range(seq) == {seq[k] : k \in 1..Len(seq)}
Count(op) == Cardinality({k \in 1..Len(log) : log[k].op = op})
Fresh == [n \in TensorNames |-> FALSE]
Returned == pc = "idle" /\ log # <<>>
SoleIgnore == Len(outputs_) = 1 /\ outputs_[1] = "ignore"
RankGate == ~with_mpi \/ mpi_rank = <<>> \/ cur_rank \in Range(mpi_rank)

\* the SwitchToDevice requests MemorySwitch owes for one tensor list, from
\* position k on
RECURSIVE Migrations(_, _, _)
Migrations(vec, kind, k) ==
    IF k > Len(vec) THEN <<>>
    ELSE (IF vec[k] = "ignore" THEN <<>> ELSE <<Ev("SwitchToDevice", kind, k - 1, vec[k])>>)
         \o Migrations(vec, kind, k + 1)

AllMigrations == Migrations(inputs_, "in", 1) \o Migrations(outputs_, "out", 1)

ExpectedRun ==
    <<Call("Run"), Call("ctx.SwitchToDevice")>>
    \o (IF debug_mode THEN <<>> ELSE <<Call("ShareBeforeRun")>>)
    \o <<Call("MemorySwitch")>>
    \o AllMigrations
    \o <<Call("RunOnDevice")>>
    \o (IF debug_mode THEN <<>> ELSE <<Call("ClearAfterRun")>>)
    \o <<Call("FinishDeviceCompution")>>

IsPrefix(s, t) == Len(s) <= Len(t) /\ s = SubSeq(t, 1, Len(s))

\* C1: when allow_run is false every Run() is a no-op: no device activation,
\* no hook, no MemorySwitch, no RunOnDevice, no synchronization; the tensors,
\* the context and the phase are left as they were, whatever debug_mode is.
C1_DisabledRunIsNoOp ==
    /\ [](~allow_run_ =>
            /\ pc = "idle"
            /\ log \in {<<>>, <<Call("Run")>>}
            /\ ctx_ = [active |-> FALSE, pending |-> FALSE]
            /\ onDevice = Fresh
            /\ acc = NoAcc)
    /\ [][(~allow_run_ /\ log' # log) =>
            (phase_' = phase_ /\ onDevice' = onDevice /\ ctx_' = ctx_ /\ pc' = pc)]_vars

C1_Witness == ~allow_run_ /\ log = <<Call("Run")>> /\ phase_ = "TRAIN"

\* C2: a permitted Run() performs its steps in program order: the calls made
\* so far are always a prefix of Run, ctx.SwitchToDevice, [ShareBeforeRun],
\* MemorySwitch with its migrations (inputs then outputs), RunOnDevice,
\* [ClearAfterRun], FinishDeviceCompution; RunOnDevice is not entered before
\* every input and output has been visited.
C2_ProgramOrder ==
    allow_run_ =>
        /\ IsPrefix(log, ExpectedRun)
        /\ (Returned => log = ExpectedRun)
        /\ (pc = "RunOnDevice" =>
              /\ SelectSeq(log, LAMBDA e : e.op = "SwitchToDevice") = AllMigrations
              /\ \A n \in (Range(inputs_) \cup Range(outputs_)) \ {"ignore"} : onDevice[n])
        /\ (pc \in {"SwitchToDevice", "ShareBeforeRun", "MemorySwitch"} =>
              Count("SwitchToDevice") = 0)

C2_Witness ==
    /\ Returned /\ allow_run_ /\ ~debug_mode
    /\ inputs_ = <<"x", "ignore">> /\ outputs_ = <<"ignore", "x">>
    /\ log = ExpectedRun

\* C3 as stated: every permitted Run() that has ended, by returning or by a
\* fatal condition, has called FinishDeviceCompution exactly once.
C3_FinishOnEveryExit ==
    (allow_run_ /\ log # <<>> /\ pc \in {"idle", "fatal"}) =>
        Count("FinishDeviceCompution") = 1

\* C3 amended: a permitted Run() that returns has called FinishDeviceCompution
\* exactly once, after RunOnDevice; a Run() ended by a fatal condition inside
\* RunOnDevice has not called it; it is never called twice in one Run().
C3_FinishOnReturn ==
    /\ (allow_run_ /\ Returned) =>
          /\ Count("FinishDeviceCompution") = 1
          /\ log[Len(log)] = Call("FinishDeviceCompution")
          /\ ~ctx_.pending
    /\ pc = "fatal" => (Count("FinishDeviceCompution") = 0 /\ ctx_.pending)
    /\ Count("FinishDeviceCompution") <= 1

C3_Witness == allow_run_ /\ Returned /\ acc.kind = "in" /\ ~acc.fatal

C5_AllowRun ==
    pc # "new" =>
        /\ pc = "idle"
        /\ allow_run_ = (RankGate /\ ~SoleIgnore)
        /\ outputs_ = <<"ignore">> => ~allow_run_
        /\ (Len(outputs_) >= 2 /\ RankGate) => allow_run_

C5_Witness == pc = "idle" /\ outputs_ = <<"ignore">> /\ RankGate /\ ~allow_run_

\* C6: with MPI compiled in the gate passes iff "mpi_rank" is empty or lists
\* the current rank, and an excluded rank has allow_run false; with MPI
\* compiled out the gate passes whatever "mpi_rank" holds.
C6_RankGate ==
    /\ with_mpi => (_MPICheck <=> (mpi_rank = <<>> \/ \E k \in 1..Len(mpi_rank) : mpi_rank[k] = cur_rank))
    /\ ~with_mpi => _MPICheck
    /\ pc # "new" =>
          /\ (with_mpi /\ mpi_rank # <<>> /\ cur_rank \notin Range(mpi_rank)) => ~allow_run_
          /\ (with_mpi /\ cur_rank \in Range(mpi_rank) /\ ~SoleIgnore) => allow_run_
          /\ ~with_mpi => (allow_run_ <=> ~SoleIgnore)

C6_Witness ==
    /\ pc = "idle" /\ with_mpi /\ mpi_rank = <<0, 0>> /\ cur_rank = 1
    /\ ~allow_run_ /\ ~SoleIgnore

\* C7: input(idx) and output(idx) succeed exactly for idx in [-n, n); a
\* non-negative idx yields the idx-th tensor, a negative one the tensor at
\* idx + n, so idx and idx - n name the same tensor; anything else is fatal.
IndexContract(vec, idx, r) ==
    LET n == Len(vec)
    IN  /\ r.fatal <=> (idx < 0 - n \/ idx >= n)
        /\ (idx >= 0 /\ idx < n) => (r.pos = idx + 1 /\ r.name = vec[idx + 1])
        /\ (idx < 0 /\ idx >= 0 - n) => (r.pos = n + idx + 1 /\ r.name = vec[n + idx + 1])

C7_IndexLookup ==
    /\ (log = <<>> \/ pc = "RunOnDevice") =>
          /\ \A idx \in IdxRange :
                IndexContract(inputs_, idx, input(idx)) /\ IndexContract(outputs_, idx, output(idx))
          /\ \A k \in 0..(InputSize - 1) : input(k).pos = input(k - InputSize).pos
          /\ \A k \in 0..(OutputSize - 1) : output(k).pos = output(k - OutputSize).pos
    /\ acc.kind = "in" => IndexContract(inputs_, acc.idx, acc)
    /\ acc.kind = "out" => IndexContract(outputs_, acc.idx, acc)
    /\ pc = "fatal" <=> acc.fatal

C7_Witness ==
    /\ acc.kind = "in" /\ acc.idx = 0 - 2 /\ ~acc.fatal
    /\ inputs_ = <<"x", "ignore">> /\ acc.name = "x" /\ Returned

\* C8: MemorySwitch requests SwitchToDevice for every input and output not
\* named "ignore", inputs first, each list in index order, and for no tensor
\* named "ignore"; the tensor "ignore" is never on the device.
C8_IgnoreUntouched ==
    /\ ~onDevice["ignore"]
    /\ \A k \in 1..Len(log) : log[k].name # "ignore"
    /\ IsPrefix(SelectSeq(log, LAMBDA e : e.op = "SwitchToDevice"), AllMigrations)
    /\ Count("RunOnDevice") = 1 =>
          /\ SelectSeq(log, LAMBDA e : e.op = "SwitchToDevice") = AllMigrations
          /\ \A n \in TensorNames \ {"ignore"} :
                n \in (Range(inputs_) \cup Range(outputs_)) => onDevice[n]

C8_Witness ==
    /\ Returned /\ allow_run_
    /\ "ignore" \in Range(inputs_) /\ "ignore" \in Range(outputs_)
    /\ onDevice["x"] /\ Count("SwitchToDevice") = 2

RECURSIVE ShapeProduct(_)
ShapeProduct(shape) == IF shape = <<>> THEN 1 ELSE Head(shape) * ShapeProduct(Tail(shape))

\* C9: TENSOR_FILL on an empty tensor: with a filler registered under the
\* tensor's name the tensor gets the requested shape, count equal to the
\* product of its dimensions and the filler's contents; without one the fill
\* is fatal.
C9_FillEmpty ==
    (fillpc # "ready" /\ call.before.count = 0) =>
        IF call.before.name \in DOMAIN fillers
        THEN /\ fillpc = "done"
             /\ call.filled
             /\ tensor.name = call.before.name
             /\ tensor.shape = call.shape
             /\ tensor.count = ShapeProduct(call.shape)
             /\ Len(tensor.data) = tensor.count
             /\ \A k \in 1..tensor.count : tensor.data[k] = fillers[tensor.name]
        ELSE fillpc = "fatal" /\ ~call.filled

C9_Witness ==
    /\ fillpc = "done" /\ call.before.count = 0 /\ call.shape = <<2, 3>>
    /\ tensor.count = 6 /\ tensor.data = [k \in 1..6 |-> 5]

\* C10: TENSOR_FILL on a non-empty tensor: when the product of the requested
\* shape equals the current count only the shape changes (no filler runs, the
\* data stays); otherwise the fill is fatal.
C10_FillNonEmpty ==
    (fillpc # "ready" /\ call.before.count > 0) =>
        IF ShapeProduct(call.shape) = call.before.count
        THEN /\ fillpc = "done"
             /\ ~call.filled
             /\ tensor = [call.before EXCEPT !.shape = call.shape]
        ELSE fillpc = "fatal" /\ ~call.filled

C10_Witness ==
    /\ fillpc = "done" /\ call.before.shape = <<2, 3>> /\ call.shape = <<3, 2>>
    /\ tensor.shape = <<3, 2>> /\ tensor.data = [k \in 1..6 |-> 7]

SetMax(S) == CHOOSE m \in S : \A e \in S : e <= m

\* C11: the multiplier cache never shrinks: the count of "_t_multiplier" never
\* decreases and is the largest of 0 and the sizes requested so far; a call
\* with a size not above the count leaves the tensor as it was.
C11_NoShrink ==
    /\ [](multiplier.count = SetMax({0} \cup requested))
    /\ [](ptr_tensor # "" =>
            /\ multiplier.count >= mcall.before.count
            /\ (mcall.size <= mcall.before.count =>
                  (~mcall.grew /\ multiplier = CreateTensor(mcall.before, "_t_multiplier"))))
    /\ [][multiplier'.count >= multiplier.count]_vars

C11_Witness ==
    /\ {2, 3} \subseteq requested /\ mcall.size = 2 /\ mcall.before.count = 3
    /\ multiplier.count = 3 /\ multiplier.shape = <<3>>

\* C19: after every INIT_MULTIPLIER(ptr, size) the pointer names the workspace
\* tensor "_t_multiplier", whose count is at least size and whose elements
\* are all one; while only sizes <= 0 were requested the tensor stays empty.
C19_AllOnes ==
    ptr_tensor # "" =>
        /\ ptr_tensor = "_t_multiplier"
        /\ multiplier.name = "_t_multiplier"
        /\ multiplier.count >= mcall.size
        /\ Len(multiplier.data) = multiplier.count
        /\ \A k \in 1..multiplier.count : multiplier.data[k] = 1
        /\ mcall.grew => multiplier.shape = <<mcall.size>>
        /\ (\A size \in requested : size <= 0) => (multiplier.count = 0 /\ multiplier.data = <<>>)

C19_Witness ==
    /\ ptr_tensor = "_t_multiplier" /\ mcall.grew /\ mcall.before.count = 2
    /\ mcall.size = 3 /\ multiplier.data = <<1, 1, 1>>

\* C12: CreateOperator on a descriptor whose type is registered in the
\* registry its device selects returns an operator with type() = desc.type
\* and name() = desc.name, built by the registered class; for a type that is
\* not in that registry it is fatal and returns nothing.
C12_Dispatch ==
    created # NoCreated =>
        LET entries == registry[RegistryOf(created.desc.device)]
        IN  /\ created.fatal <=> ~HasKey(entries, created.desc.type)
            /\ ~created.fatal =>
                  /\ regpc = "main"
                  /\ type(created.op) = created.desc.type
                  /\ name(created.op) = created.desc.name
                  /\ \E k \in 1..Len(entries) :
                        entries[k].key = created.desc.type /\ entries[k].class = created.op.class
            /\ created.fatal => (regpc = "fatal" /\ created.op = NoOp)

C12_Witness ==
    /\ ~created.fatal /\ created.desc = [device |-> "CUDA", type |-> "Conv", name |-> "op2"]
    /\ type(created.op) = "Conv" /\ HasKey(registry["CPUOperatorRegistry"], "Add")

Entries(reg) == {registry[reg][k] : k \in 1..Len(registry[reg])}
KeyCount(reg, key) == Cardinality({k \in 1..Len(registry[reg]) : registry[reg][k].key = key})

\* C13: every registry holds at most one factory per type name; registering
\* a name that is already in the same registry is fatal and adds nothing
\* (DEPLOY_CUDA and DEPLOY_CPU_CUDA both insert into CUDAOperatorRegistry);
\* a name may be in several registries.
C13_UniqueKeys ==
    /\ \A reg \in Registries : \A key \in OpTypes : KeyCount(reg, key) <= 1
    /\ lastreg.macro \in {"DEPLOY_CUDA", "DEPLOY_CPU_CUDA"} =>
          lastreg.registry = "CUDAOperatorRegistry"
    /\ lastreg.macro = "DEPLOY_CPU" => lastreg.registry = "CPUOperatorRegistry"
    /\ lastreg.macro = "DEPLOY_CUDNN" => lastreg.registry = "CUDNNOperatorRegistry"
    /\ lastreg # NoReg =>
          /\ KeyCount(lastreg.registry, lastreg.key) = 1
          /\ lastreg.dup => regpc = "fatal"
          /\ (regpc = "static-init" => ~lastreg.dup)
          /\ (~lastreg.dup /\ regpc = "static-init") =>
                registry[lastreg.registry][Len(registry[lastreg.registry])].by = lastreg.macro

C13_Witness ==
    /\ regpc = "fatal" /\ lastreg.dup /\ lastreg.macro = "DEPLOY_CPU_CUDA" /\ lastreg.key = "Add"
    /\ \E e \in Entries("CUDAOperatorRegistry") : e.key = "Add" /\ e.by = "DEPLOY_CUDA"
    /\ HasKey(registry["CPUOperatorRegistry"], "Add")

\* C16 as stated: every entry of a registry is a class specialized to the
\* context of that registry's backend.
C16_BackendContext ==
    /\ \A e \in Entries("CPUOperatorRegistry") : e.class.context = "CPUContext"
    /\ \A e \in Entries("CUDAOperatorRegistry") : e.class.context = "CUDAContext"
    /\ \A e \in Entries("CUDNNOperatorRegistry") : e.class.context = "CUDAContext"

\* C16 amended: DEPLOY_CPU registers name##Op<CPUContext> in the CPU registry,
\* DEPLOY_CUDA name##Op<CUDAContext> in the CUDA registry and DEPLOY_CUDNN
\* CuDNN##name##Op<CUDAContext> in the cuDNN registry; DEPLOY_CPU_CUDA registers
\* the CPU specialization name##Op<CPUContext> in the CUDA registry.
C16_DeployedClass ==
    /\ \A e \in Entries("CPUOperatorRegistry") :
          e.by = "DEPLOY_CPU" /\ e.class = Class("", e.key, "CPUContext")
    /\ \A e \in Entries("CUDAOperatorRegistry") :
          \/ e.by = "DEPLOY_CUDA" /\ e.class = Class("", e.key, "CUDAContext")
          \/ e.by = "DEPLOY_CPU_CUDA" /\ e.class = Class("", e.key, "CPUContext")
    /\ \A e \in Entries("CUDNNOperatorRegistry") :
          e.by = "DEPLOY_CUDNN" /\ e.class = Class("CuDNN", e.key, "CUDAContext")

C16_Witness ==
    /\ \E e \in Entries("CUDAOperatorRegistry") : e.by = "DEPLOY_CPU_CUDA"
    /\ \E e \in Entries("CUDAOperatorRegistry") : e.by = "DEPLOY_CUDA"
    /\ registry["CPUOperatorRegistry"] # <<>> /\ registry["CUDNNOperatorRegistry"] # <<>>

\* C14: allow_run is fixed at construction: no Run() step and no
\* SwitchToPhase changes it, it always equals what the constructor computed,
\* a disabled operator never reaches RunOnDevice and a Run() of an enabled
\* operator is never skipped.
C14_AllowRunFixed ==
    /\ [](/\ allow_run_ = Constructor.allow_run
          /\ ~allow_run_ => Count("RunOnDevice") = 0
          /\ (allow_run_ /\ Returned) => Count("RunOnDevice") = 1)
    /\ [][/\ allow_run_' = allow_run_
          /\ (allow_run_ /\ pc = "idle" /\ log' # log) => pc' = "SwitchToDevice"]_vars

C14_Witness ==
    /\ allow_run_ /\ phase_ = "TRAIN" /\ ctx_.active
    /\ pc = "RunOnDevice" /\ onDevice # Fresh /\ acc = NoAcc

\* C15: Run() invocations do not interleave: FinishDeviceCompution is the
\* last call of an invocation and follows its RunOnDevice, and an invocation
\* starts only when the operator is idle, the previous permitted invocation
\* has made all its calls through FinishDeviceCompution and nothing is
\* pending on the device.
C15_RunsDoNotInterleave ==
    /\ [](Count("FinishDeviceCompution") >= 1 =>
            /\ pc = "idle"
            /\ log[Len(log)] = Call("FinishDeviceCompution")
            /\ \E k \in 1..(Len(log) - 1) : log[k] = Call("RunOnDevice"))
    /\ [][(log' # log /\ Len(log') = 1) =>
            /\ pc = "idle"
            /\ ~ctx_.pending
            /\ allow_run_ => (log = <<>> \/ log = ExpectedRun)]_vars

C15_Witness ==
    /\ pc = "SwitchToDevice" /\ log = <<Call("Run")>>
    /\ ctx_.active /\ ~ctx_.pending /\ onDevice # Fresh

\* C20: construction never fails on an out-of-range output(0), whatever the
\* number of outputs, and with no outputs allow_run is the rank gate.
C20_ZeroOutputs ==
    /\ ~Constructor.fatal
    /\ pc # "new" =>
          /\ pc = "idle"
          /\ OutputSize = 0 => allow_run_ = RankGate

C20_Witness ==
    /\ pc = "idle" /\ outputs_ = <<>> /\ allow_run_
    /\ with_mpi /\ mpi_rank # <<>>

\* C17: a fatal TENSOR_FILL leaves the tensor as it was before the call: the
\* failing check (no filler for an empty tensor, or a count that differs from
\* the product of the requested shape) comes before any Reshape or Fill.
C17_FatalFillKeepsTensor ==
    /\ [](fillpc = "fatal" =>
            /\ tensor = call.before
            /\ ~call.filled
            /\ IF tensor.count = 0 THEN ~HasFiller(tensor.name)
               ELSE ShapeProduct(call.shape) # tensor.count)
    /\ [][fillpc' = "fatal" => tensor' = tensor]_vars

C17_Witness ==
    /\ fillpc = "fatal" /\ call.shape = <<3, 3>>
    /\ tensor.shape = <<2, 3>> /\ tensor.data = [k \in 1..6 |-> 5]

\* C18: the filler runs only on an empty tensor: a call on a non-empty
\* tensor with a shape of the same product succeeds without the filler and
\* leaves count and data as they were; a call on a tensor whose count is 0
\* (also after a fill with a zero-product shape) with a registered filler
\* runs the filler.
C18_FillOnce ==
    [][/\ (tensor.count > 0 /\ ShapeProduct(call'.shape) = tensor.count) =>
             /\ fillpc' = "done"
             /\ ~call'.filled
             /\ tensor'.count = tensor.count
             /\ tensor'.data = tensor.data
       /\ call'.filled => tensor.count = 0
       /\ (tensor.count = 0 /\ HasFiller(tensor.name)) =>
             (call'.filled /\ tensor'.data = [k \in 1..ShapeProduct(call'.shape) |-> fillers[tensor.name]])]_vars

C18_Witness ==
    /\ fillpc = "done" /\ ~call.filled
    /\ call.before.shape = <<2, 3>> /\ call.before.data = [k \in 1..6 |-> 5]
    /\ call.shape = <<3, 2>> /\ tensor.data = call.before.data

====
